---- MODULE Spec2Model ----
(***************************************************************************)
(* A model of three parts of git-meta:                                     *)
(*   - the merge-bare command   (src/node/lib/cmd/merge_bare.js)           *)
(*   - the status reader        (src/node/lib/util/diff_util.js)           *)
(*   - the diff command         (src/node/lib/cmd/diff.js, diff_util.js)   *)
(* Each part has its own variables and its own specification; a            *)
(* specification leaves the variables of the other parts unchanged.        *)
(***************************************************************************)
EXTENDS Integers, Sequences, FiniteSets, TLC

\* JavaScript's null (and undefined, where the code does not tell them apart).
NULL == "null"

\* The variables of merge-bare.
VARIABLES
    mbPc,         \* position of executeableSubcommand in merge_bare.js
    mbArgs,       \* the parsed arguments: ourCommit, theirCommit, no_ff
    mbRepo,       \* the repository: commit-ish name -> commit id or NULL
    mbOurs,       \* ourCommitish, once resolved
    mbTheirs,     \* theirCommitish, once resolved
    mbResult,     \* <<r>> once MergeUtil.merge has returned r, <<>> before
    mbStdout,     \* what console.log has printed
    mbError,      \* the text of the UserError thrown, NoError while none is
    mbCalls       \* the collaborator calls made so far, in order

mbVars == <<mbPc, mbArgs, mbRepo, mbOurs, mbTheirs, mbResult, mbStdout,
            mbError, mbCalls>>

\* The variables of the status reader.
VARIABLES
    stPc,         \* "idle" before getRepoStatus is called, "returned" after
    stArgs,       \* the arguments of the call: ignoreIndex
    stDiffs,      \* the diffs the primitives returned: workdir, staged
    stCalls,      \* the diff primitives called, in order
    stResult      \* the value returned: staged, workdir

stVars == <<stPc, stArgs, stDiffs, stCalls, stResult>>

\* The variables of the diff command.
VARIABLES
    dfPc,          \* position of executeableSubcommand in diff.js
    dfArgv,        \* process.argv
    dfOpts,        \* the value of getOptions, once computed
    dfMetaDiff,    \* the diff primitive getDiffWithOptions called
    dfTreeChanges, \* the names of the changed submodules, in the mapping's order
    dfIdx,         \* how many of them the loop has been through
    dfLog,         \* submodules opened, lines printed, processes spawned
    dfError        \* the error the command ended with, NoError while none is

dfVars == <<dfPc, dfArgv, dfOpts, dfMetaDiff, dfTreeChanges, dfIdx, dfLog,
            dfError>>

vars == <<mbVars, stVars, dfVars>>

\* What an action of one part leaves alone: the other parts.
mbOthers == <<stVars, dfVars>>
stOthers == <<mbVars, dfVars>>
dfOthers == <<mbVars, stVars>>

(***************************************************************************)
(* PART 1: merge-bare                                                      *)
(***************************************************************************)

\* The commit-ish names a user may give, and the commits they may name.
CommitNames == {"ours", "theirs"}
CommitIds == {"c1", "c2"}

\* The results MergeUtil.merge may return: metaCommit and errorMessage are
\* each null or set, in every combination.
MergeResults ==
    [metaCommit : {NULL, "m1"}, errorMessage : {NULL, "conflict in x"}]

MODE_NORMAL == "NORMAL"
MODE_FORCE_COMMIT == "FORCE_COMMIT"

\* merge_bare.js 97-99
mbMode(args) == IF args.no_ff THEN MODE_FORCE_COMMIT ELSE MODE_NORMAL

\* GitUtil.resolveCommitish(repo, name): the commit the name resolves to, or
\* null.
resolveCommitish(repo, name) == repo[name]

\* The text of the UserError thrown at merge_bare.js 107-108 and 114-115.
CouldNotResolve(name) == <<"Could not resolve ", name, " to a commit.">>

\* No error has been thrown.
NoError == <<>>

TwoCommitsMustBeGiven == <<"Two commits must be given.">>

\* Hook.execHook(repo, name, args): the hook runs as a notification; the
\* command does not depend on its outcome.
execHook(calls, name, args) == Append(calls, <<"execHook", name, args>>)

\* merge-bare is about to run, with any arguments in any repository; the
\* other parts are not running.
MbInit ==
    /\ mbPc = "start"
    /\ mbArgs \in [ourCommit : CommitNames \cup {NULL},
                   theirCommit : CommitNames \cup {NULL},
                   no_ff : BOOLEAN]
    /\ mbRepo \in [CommitNames -> CommitIds \cup {NULL}]
    /\ mbOurs = NULL
    /\ mbTheirs = NULL
    /\ mbResult = <<>>
    /\ mbStdout = <<>>
    /\ mbError = NoError
    /\ mbCalls = <<>>
    /\ stPc = "off"
    /\ stArgs = <<>>
    /\ stDiffs = <<>>
    /\ stCalls = <<>>
    /\ stResult = <<>>
    /\ dfPc = "off"
    /\ dfArgv = <<>>
    /\ dfOpts = <<>>
    /\ dfMetaDiff = <<>>
    /\ dfTreeChanges = <<>>
    /\ dfIdx = 0
    /\ dfLog = <<>>
    /\ dfError = NoError

\* merge_bare.js 100-104: both names must be given.
MbCheckArgs ==
    /\ mbPc = "start"
    /\ IF mbArgs.ourCommit = NULL \/ mbArgs.theirCommit = NULL
       THEN /\ mbError' = TwoCommitsMustBeGiven
            /\ mbPc' = "failed"
       ELSE /\ mbError' = mbError
            /\ mbPc' = "resolveOurs"
    /\ UNCHANGED <<mbArgs, mbRepo, mbOurs, mbTheirs, mbResult, mbStdout,
                   mbCalls>>
    /\ UNCHANGED mbOthers

\* A variant of MbResolveOurs without the null check of lines 106-109.
MbResolveOurs_Unchecked ==
    /\ mbPc = "resolveOurs"
    /\ mbOurs' = resolveCommitish(mbRepo, mbArgs.ourCommit)
    /\ mbCalls' = Append(mbCalls, <<"resolveCommitish", mbArgs.ourCommit>>)
    /\ mbPc' = "resolveTheirs"
    /\ UNCHANGED <<mbArgs, mbRepo, mbTheirs, mbResult, mbStdout, mbError>>
    /\ UNCHANGED mbOthers

\* merge_bare.js 105-109: resolve ourCommit; a null is a user error.
MbResolveOurs ==
    /\ mbPc = "resolveOurs"
    /\ LET c == resolveCommitish(mbRepo, mbArgs.ourCommit) IN
       /\ mbOurs' = c
       /\ mbCalls' = Append(mbCalls, <<"resolveCommitish", mbArgs.ourCommit>>)
       /\ IF c = NULL
          THEN /\ mbError' = CouldNotResolve(mbArgs.ourCommit)
               /\ mbPc' = "failed"
          ELSE /\ mbError' = mbError
               /\ mbPc' = "resolveTheirs"
    /\ UNCHANGED <<mbArgs, mbRepo, mbTheirs, mbResult, mbStdout>>
    /\ UNCHANGED mbOthers

\* merge_bare.js 111-116: resolve theirCommit; a null is a user error.
MbResolveTheirs ==
    /\ mbPc = "resolveTheirs"
    /\ LET c == resolveCommitish(mbRepo, mbArgs.theirCommit) IN
       /\ mbTheirs' = c
       /\ mbCalls' = Append(mbCalls,
                            <<"resolveCommitish", mbArgs.theirCommit>>)
       /\ IF c = NULL
          THEN /\ mbError' = CouldNotResolve(mbArgs.theirCommit)
               /\ mbPc' = "failed"
          ELSE /\ mbError' = mbError
               /\ mbPc' = "merge"
    /\ UNCHANGED <<mbArgs, mbRepo, mbOurs, mbResult, mbStdout>>
    /\ UNCHANGED mbOthers

\* merge_bare.js 118-127: read both commits and run the merge engine, which
\* returns any of MergeResults.
MbMerge ==
    /\ mbPc = "merge"
    /\ \E r \in MergeResults :
        /\ mbResult' = <<r>>
        /\ mbCalls' = mbCalls \o << <<"getCommit", mbOurs>>,
                                    <<"getCommit", mbTheirs>>,
                                    <<"merge", mbOurs, mbTheirs,
                                      mbMode(mbArgs)>> >>
    /\ mbPc' = "result"
    /\ UNCHANGED <<mbArgs, mbRepo, mbOurs, mbTheirs, mbStdout, mbError>>
    /\ UNCHANGED mbOthers

\* A variant of mbResultFails that lets a result carrying both a commit and an
\* error message through.
mbResultFails_OnlyWithoutCommit(result) ==
    result.errorMessage # NULL /\ result.metaCommit = NULL

\* merge_bare.js 128-130: does the result end the command with an error?
mbResultFails(result) == result.errorMessage # NULL

\* A variant of mbPrinted without the null check of line 131.
mbPrinted_Unchecked(result) == <<result.metaCommit>>

\* merge_bare.js 131-133: what console.log prints for a result.
mbPrinted(result) ==
    IF result.metaCommit # NULL THEN <<result.metaCommit>> ELSE <<>>

\* merge_bare.js 128-133: an error message is thrown as a UserError; otherwise
\* the commit id, when there is one, is printed.
MbHandleResult ==
    /\ mbPc = "result"
    /\ IF mbResultFails(mbResult[1])
       THEN /\ mbError' = <<mbResult[1].errorMessage>>
            /\ mbPc' = "failed"
            /\ mbStdout' = mbStdout
       ELSE /\ mbError' = mbError
            /\ mbStdout' = mbStdout \o mbPrinted(mbResult[1])
            /\ mbPc' = "hook"
    /\ UNCHANGED <<mbArgs, mbRepo, mbOurs, mbTheirs, mbResult, mbCalls>>
    /\ UNCHANGED mbOthers

\* merge_bare.js 134-138: the post-merge hook, then the command returns.
MbPostMerge ==
    /\ mbPc = "hook"
    /\ mbCalls' = execHook(mbCalls, "post-merge", <<"0">>)
    /\ mbPc' = "done"
    /\ UNCHANGED <<mbArgs, mbRepo, mbOurs, mbTheirs, mbResult, mbStdout,
                   mbError>>
    /\ UNCHANGED mbOthers

MbNext ==
    \/ MbCheckArgs
    \/ MbResolveOurs
    \/ MbResolveTheirs
    \/ MbMerge
    \/ MbHandleResult
    \/ MbPostMerge

\* The command has ended, normally or with an error.
MbEnded == mbPc \in {"done", "failed"}

\* The calls of one kind made so far.
MbCallsOf(kind) == SelectSeq(mbCalls, LAMBDA c : c[1] = kind)

MbHookCalls == Len(MbCallsOf("execHook"))

\* MergeUtil.merge has returned.
MbMerged == mbResult # <<>>

\* C1 as stated: the post-merge hook is invoked at most once, and, once the
\* command has ended, it has been invoked if and only if the merge produced a
\* new commit (a result with a null error message and a non-null commit).
C1_HookIffNewCommit ==
    /\ MbHookCalls <= 1
    /\ MbEnded =>
         (MbHookCalls = 1 <=>
            /\ MbMerged
            /\ mbResult[1].errorMessage = NULL
            /\ mbResult[1].metaCommit # NULL)

\* C1 amended: the post-merge hook is invoked at most once, and, once the
\* command has ended, it has been invoked if and only if the merge returned a
\* result with a null error message, whether or not that result carries a new
\* commit.  It is never invoked before the result has been handled.
C1_HookIffNoError ==
    /\ MbHookCalls <= 1
    /\ MbHookCalls = 1 => mbPc = "done"
    /\ MbEnded =>
         (MbHookCalls = 1 <=> (MbMerged /\ mbResult[1].errorMessage = NULL))

\* C1 witness: a merge that succeeded without a new commit has ended, and the
\* hook has run.
C1_Witness ==
    /\ mbPc = "done"
    /\ mbResult[1].metaCommit = NULL
    /\ mbResult[1].errorMessage = NULL
    /\ MbCallsOf("execHook") = << <<"execHook", "post-merge", <<"0">>>> >>

\* C2: once the merge result has been handled: a non-null error message ends
\* the command with a user error carrying exactly that message and nothing is
\* printed; a null error message lets the command go on without an error,
\* having printed the commit id when it is non-null and nothing when it is
\* null.  A run that has failed has printed nothing.
C2_ResultHandling ==
    /\ (MbMerged /\ mbPc \in {"hook", "done", "failed"}) =>
         LET r == mbResult[1] IN
         IF r.errorMessage # NULL
         THEN /\ mbPc = "failed"
              /\ mbError = <<r.errorMessage>>
              /\ mbStdout = <<>>
         ELSE /\ mbPc \in {"hook", "done"}
              /\ mbError = NoError
              /\ mbStdout = IF r.metaCommit # NULL
                            THEN <<r.metaCommit>> ELSE <<>>
    /\ mbPc = "failed" => mbStdout = <<>>
    /\ mbError # NoError => mbStdout = <<>>

\* C2 witness: a successful run that printed its commit id.
C2_Witness ==
    /\ mbPc = "done"
    /\ mbResult[1].metaCommit = "m1"
    /\ mbStdout = <<"m1">>
    /\ mbError = NoError

\* Both commit names were given (line 102), and this one does not resolve.
MbUnresolvable(name) ==
    /\ mbArgs.ourCommit # NULL
    /\ mbArgs.theirCommit # NULL
    /\ mbRepo[name] = NULL

\* C3: when ourCommit or theirCommit does not resolve to a commit, the command
\* never reads a commit, never runs the merge and prints nothing, and it ends
\* with the user error 'Could not resolve <name> to a commit' naming ourCommit
\* when ourCommit is unresolvable (also when both are) and theirCommit when only
\* theirCommit is.  ourCommit is resolved first, and theirCommit is not looked
\* up at all when ourCommit fails.
C3_UnresolvableCommit ==
    LET oursBad == MbUnresolvable(mbArgs.ourCommit)
        theirsBad == MbUnresolvable(mbArgs.theirCommit)
        resolved == MbCallsOf("resolveCommitish")
    IN
    /\ (oursBad \/ theirsBad) =>
         /\ MbCallsOf("getCommit") = <<>>
         /\ MbCallsOf("merge") = <<>>
         /\ mbStdout = <<>>
         /\ mbPc # "done"
    /\ (oursBad /\ MbEnded) =>
         /\ mbPc = "failed"
         /\ mbError = CouldNotResolve(mbArgs.ourCommit)
         /\ mbCalls = << <<"resolveCommitish", mbArgs.ourCommit>> >>
    /\ (~oursBad /\ theirsBad /\ MbEnded) =>
         /\ mbPc = "failed"
         /\ mbError = CouldNotResolve(mbArgs.theirCommit)
         /\ mbCalls = << <<"resolveCommitish", mbArgs.ourCommit>>,
                         <<"resolveCommitish", mbArgs.theirCommit>> >>
    /\ resolved # <<>> => resolved[1][2] = mbArgs.ourCommit

\* C3 witness: both names are unresolvable and differ, and the command has
\* ended with the error that names ourCommit.
C3_Witness ==
    /\ mbPc = "failed"
    /\ mbArgs.ourCommit = "ours"
    /\ mbArgs.theirCommit = "theirs"
    /\ mbRepo["ours"] = NULL
    /\ mbRepo["theirs"] = NULL
    /\ mbError = CouldNotResolve("ours")

(***************************************************************************)
(* PART 2: the status reader (readDiff, getRepoStatus)                     *)
(***************************************************************************)

\* The most deltas the diffs of one call hold together.
MaxDeltas == 2

\* SubmoduleConfigUtil.modulesFileName
modulesFileName == ".gitmodules"

\* NodeGit.TreeEntry.FILEMODE: a submodule pointer, and an ordinary file.
FILEMODE_COMMIT == "COMMIT"
FILEMODE_BLOB == "BLOB"

\* NodeGit.Diff.DELTA, the statuses a diff made with these options reports.
DELTA ==
    {"MODIFIED", "ADDED", "DELETED", "RENAMED", "TYPECHANGE", "UNTRACKED",
     "CONFLICTED"}

\* The paths a delta may name.
StPaths == {modulesFileName, "a", "b"}

\* The submodule-config file and "b" are ordinary files; "a" may be an
\* ordinary file or a submodule pointer.
StFiles ==
    {f \in [path : StPaths, mode : {FILEMODE_BLOB, FILEMODE_COMMIT}] :
        f.path # "a" => f.mode = FILEMODE_BLOB}

\* The deltas of a diff: only a rename has two different paths.
StDeltas ==
    {d \in [status : DELTA, oldFile : StFiles, newFile : StFiles] :
        (d.status = "RENAMED") <=> (d.oldFile.path # d.newFile.path)}

\* The diffs of n deltas.
StDiffsOfLen(n) == [1..n -> StDeltas]

\* A variant of convertDeltaFlag that keeps UNTRACKED apart from ADDED.
convertDeltaFlag_KeepUntracked(flag) ==
    CASE flag = "MODIFIED" -> "MODIFIED"
      [] flag = "ADDED" -> "ADDED"
      [] flag = "DELETED" -> "REMOVED"
      [] flag = "RENAMED" -> "RENAMED"
      [] flag = "TYPECHANGE" -> "TYPECHANGED"
      [] flag = "UNTRACKED" -> "UNTRACKED"
      [] OTHER -> "AssertionError"

\* diff_util.js 52-68: the FILESTATUS of a DELTA flag.
convertDeltaFlag(flag) ==
    CASE flag = "MODIFIED" -> "MODIFIED"
      [] flag = "ADDED" -> "ADDED"
      [] flag = "DELETED" -> "REMOVED"
      [] flag = "RENAMED" -> "RENAMED"
      [] flag = "TYPECHANGE" -> "TYPECHANGED"
      [] flag = "UNTRACKED" -> "ADDED"
      [] OTHER -> "AssertionError"

\* diff_util.js 81-83: the file of a delta whose path and mode are read.
stDeltaFile(delta, fileStatus) ==
    IF fileStatus = "REMOVED" THEN delta.oldFile ELSE delta.newFile

\* A variant of stRecorded that looks at the path alone.
stRecorded_PathOnly(file) == modulesFileName # file.path

\* diff_util.js 89-90: is a change of this file recorded in the status map?
stRecorded(file) ==
    modulesFileName # file.path /\ FILEMODE_COMMIT # file.mode

\* result[path] = fileStatus on a JavaScript object.
StPut(map, key, value) ==
    [k \in DOMAIN map \cup {key} |-> IF k = key THEN value ELSE map[k]]

\* The object {}.
StEmpty == [k \in {} |-> "none"]

\* diff_util.js 74-93: the loop of readDiff from delta i on.
RECURSIVE readDiffFrom(_, _, _)
readDiffFrom(diff, i, result) ==
    IF i > Len(diff) THEN result
    ELSE LET delta == diff[i]
             diffStatus == delta.status
         IN
         IF diffStatus = "CONFLICTED"
         THEN readDiffFrom(diff, i + 1, result)
         ELSE LET fileStatus == convertDeltaFlag(diffStatus)
                  file == stDeltaFile(delta, fileStatus)
              IN
              IF stRecorded(file)
              THEN readDiffFrom(diff, i + 1,
                                StPut(result, file.path, fileStatus))
              ELSE readDiffFrom(diff, i + 1, result)

\* diff_util.js 70-95
readDiff(diff) == readDiffFrom(diff, 1, StEmpty)

\* getRepoStatus has not been called; merge-bare is not running.
StInit ==
    /\ stPc = "idle"
    /\ stArgs = <<>>
    /\ stDiffs = <<>>
    /\ stCalls = <<>>
    /\ stResult = <<>>
    /\ mbPc = "off"
    /\ mbArgs = <<>>
    /\ mbRepo = <<>>
    /\ mbOurs = NULL
    /\ mbTheirs = NULL
    /\ mbResult = <<>>
    /\ mbStdout = <<>>
    /\ mbError = NoError
    /\ mbCalls = <<>>
    /\ dfPc = "off"
    /\ dfArgv = <<>>
    /\ dfOpts = <<>>
    /\ dfMetaDiff = <<>>
    /\ dfTreeChanges = <<>>
    /\ dfIdx = 0
    /\ dfLog = <<>>
    /\ dfError = NoError

\* diff_util.js 148-156: getRepoStatus when ignoreIndex is true.  The
\* primitive may return any diff; its options (136-147) only select what it
\* looks at.
GetRepoStatusIgnoreIndex ==
    /\ stPc = "idle"
    /\ \E n \in 0..MaxDeltas :
       \E workdirToTreeDiff \in StDiffsOfLen(n) :
        /\ stArgs' = [ignoreIndex |-> TRUE]
        /\ stCalls' = <<"treeToWorkdir">>
        /\ stDiffs' = [workdir |-> workdirToTreeDiff, staged |-> <<>>]
        /\ stResult' = [staged |-> StEmpty,
                        workdir |-> readDiff(workdirToTreeDiff)]
    /\ stPc' = "returned"
    /\ UNCHANGED stOthers

\* diff_util.js 157-167: getRepoStatus when ignoreIndex is false.
GetRepoStatusWithIndex ==
    /\ stPc = "idle"
    /\ \E n \in 0..MaxDeltas, m \in 0..MaxDeltas :
        /\ n + m <= MaxDeltas
        /\ \E workdirToIndexDiff \in StDiffsOfLen(n),
              indexToTreeDiff \in StDiffsOfLen(m) :
            /\ stArgs' = [ignoreIndex |-> FALSE]
            /\ stCalls' = <<"index", "indexToWorkdir", "treeToIndex">>
            /\ stDiffs' = [workdir |-> workdirToIndexDiff,
                           staged |-> indexToTreeDiff]
            /\ stResult' = [staged |-> readDiff(indexToTreeDiff),
                            workdir |-> readDiff(workdirToIndexDiff)]
    /\ stPc' = "returned"
    /\ UNCHANGED stOthers

StNext ==
    \/ GetRepoStatusIgnoreIndex
    \/ GetRepoStatusWithIndex

\* The file a delta stands for: the old file of a removal, the new file
\* otherwise.
StFileOf(delta) ==
    IF delta.status = "DELETED" THEN delta.oldFile ELSE delta.newFile

StReferenceStatus ==
    [flag \in DELTA \ {"CONFLICTED"} |->
        IF flag = "DELETED" THEN "REMOVED"
        ELSE IF flag = "TYPECHANGE" THEN "TYPECHANGED"
        ELSE IF flag = "UNTRACKED" THEN "ADDED"
        ELSE flag]

\* The deltas of a diff that count: not CONFLICTED, and their file neither
\* the submodule-config file nor a submodule pointer.
StCounted(diff) ==
    {i \in DOMAIN diff :
        /\ diff[i].status # "CONFLICTED"
        /\ StFileOf(diff[i]).path # modulesFileName
        /\ StFileOf(diff[i]).mode # FILEMODE_COMMIT}

\* The reference map of a diff: each path of a delta that counts, with the
\* converted status of the last such delta of that path.
StReference(diff) ==
    LET paths == {StFileOf(diff[i]).path : i \in StCounted(diff)}
        last(p) == CHOOSE i \in StCounted(diff) :
                      /\ StFileOf(diff[i]).path = p
                      /\ \A j \in StCounted(diff) :
                            StFileOf(diff[j]).path = p => j <= i
    IN  [p \in paths |-> StReferenceStatus[diff[last(p)].status]]

\* C12: for every diff getRepoStatus reads, the map readDiff built is the
\* reference map: the deltas walked in order, CONFLICTED ones and excluded
\* files skipped, each other delta's path (the old file's for a removal, the
\* new file's otherwise) mapped to its converted status, a later delta of a
\* path overriding an earlier one; a path all of whose deltas are CONFLICTED
\* is not a key.
C12_ReadDiffIsReference ==
    stPc = "returned" =>
        /\ stResult.workdir = StReference(stDiffs.workdir)
        /\ ~stArgs.ignoreIndex =>
              stResult.staged = StReference(stDiffs.staged)
        /\ \A side \in {"staged", "workdir"} :
           \A p \in StPaths :
              (\A i \in DOMAIN stDiffs[side] :
                  StFileOf(stDiffs[side][i]).path = p =>
                      stDiffs[side][i].status = "CONFLICTED")
              => p \notin DOMAIN stResult[side]

\* C12 witness: the workdir diff held the untracked file "b" and then its
\* removal, and the staged diff nothing: "b" is REMOVED, the later delta.
C12_Witness ==
    /\ stPc = "returned"
    /\ ~stArgs.ignoreIndex
    /\ Len(stDiffs.workdir) = 2
    /\ stDiffs.workdir[1].status = "UNTRACKED"
    /\ stDiffs.workdir[2].status = "DELETED"
    /\ \A i \in 1..2 :
          StFileOf(stDiffs.workdir[i]) = [path |-> "b", mode |-> FILEMODE_BLOB]
    /\ stResult.workdir = [p \in {"b"} |-> "REMOVED"]
    /\ stResult.staged = StEmpty

(***************************************************************************)
(* PART 3: the diff command                                                *)
(* A string is the sequence of its characters, so that paths are split,    *)
(* resolved and joined as the code does it.                                *)
(***************************************************************************)

\* The most words that follow "diff" on the command line.
MaxArgs == 3

\* The words of a command line.
wNode == <<"n", "o", "d", "e">>
wGitMeta == <<"g", "i", "t", "-", "m", "e", "t", "a">>
wDiff == <<"d", "i", "f", "f">>
wSeparator == <<"-", "-">>
wDot == <<".">>
wDotDot == <<".", ".">>
wSlash == <<"/">>
wSpace == <<" ">>
wCached == <<"-", "-", "c", "a", "c", "h", "e", "d">>
wGitC == <<"g", "i", "t", " ", "-", "C", " ">>
EmptyStr == <<>>

\* null or undefined where a string may stand.
NoWord == <<NULL>>

\* The words a user may give after "diff": two names of trees, the
\* separator, a flag of the parser, and paths: the submodules x and y, a file of x, a file
\* of x whose name begins with two dots, and the parent of x through x.
DfWords ==
    { <<"H">>, <<"D">>, wSeparator, wCached,
      <<"x">>, <<"y">>, <<"x", "/", "f">>, <<"x", "/", ".", ".", "f">>,
      <<"x", "/", ".", ".">> }

\* TreeUtil.revparseTreeish(repo, treeish): the tree a name resolves to; null
\* for null and for a name that does not resolve.  H and D name trees.
revparseTreeish(name) ==
    CASE name = <<"H">> -> "treeH"
      [] name = <<"D">> -> "treeD"
      [] OTHER -> NULL

\* The submodules of the meta repository, by name; a submodule's path is its
\* name.
DfSubs == { <<"x">>, <<"y">> }

\* metaRepo.workdir(), and process.cwd(): the command runs at the root of the
\* meta repository.
DfMetaDir == <<"/", "m">>
DfCwd == DfMetaDir

\* Array.prototype.indexOf: the 0-based index of the first w in seq, or -1.
IndexOf(seq, w) ==
    IF \E i \in 1..Len(seq) : seq[i] = w
    THEN (CHOOSE i \in 1..Len(seq) :
             seq[i] = w /\ \A j \in 1..(i - 1) : seq[j] # w) - 1
    ELSE -1

\* Array.prototype.slice(from, to), 0-based, to exclusive, 0 <= from.
Slice(seq, from, to) ==
    IF to <= from THEN <<>>
    ELSE SubSeq(seq, from + 1, IF to > Len(seq) THEN Len(seq) ELSE to)

\* Array.prototype.includes
Includes(seq, w) == \E i \in 1..Len(seq) : seq[i] = w

\* String.prototype.startsWith
StartsWith(str, prefix) ==
    /\ Len(str) >= Len(prefix)
    /\ SubSeq(str, 1, Len(prefix)) = prefix

\* Array.prototype.join
RECURSIVE Join(_, _)
Join(seq, sep) ==
    IF Len(seq) = 0 THEN EmptyStr
    ELSE IF Len(seq) = 1 THEN seq[1]
    ELSE seq[1] \o sep \o Join(Tail(seq), sep)

\* String.prototype.split(sep) for a separator of one character, from
\* character i on, cur being the piece begun.
RECURSIVE SplitFrom(_, _, _, _)
SplitFrom(str, sep, i, cur) ==
    IF i > Len(str) THEN <<cur>>
    ELSE IF str[i] = sep THEN <<cur>> \o SplitFrom(str, sep, i + 1, EmptyStr)
    ELSE SplitFrom(str, sep, i + 1, Append(cur, str[i]))

\* The segments of a path.
Split(str) == SplitFrom(str, "/", 1, EmptyStr)

\* path.resolve's normalisation: empty and "." segments go, ".." takes the
\* segment before it away (and nothing at the root).
RECURSIVE NormalizeFrom(_, _, _)
NormalizeFrom(segs, i, out) ==
    IF i > Len(segs) THEN out
    ELSE IF segs[i] = EmptyStr \/ segs[i] = wDot
         THEN NormalizeFrom(segs, i + 1, out)
    ELSE IF segs[i] = wDotDot
         THEN NormalizeFrom(segs, i + 1,
                            IF Len(out) = 0 THEN out
                            ELSE SubSeq(out, 1, Len(out) - 1))
    ELSE NormalizeFrom(segs, i + 1, Append(out, segs[i]))

\* path.resolve(p): the segments of the absolute path p stands for.
PathResolve(p) ==
    IF StartsWith(p, wSlash)
    THEN NormalizeFrom(Split(p), 1, <<>>)
    ELSE NormalizeFrom(Split(DfCwd) \o Split(p), 1, <<>>)

\* The length of the longest common prefix of two sequences.
CommonPrefixLen(a, b) ==
    LET agree(n) == \A i \in 1..n : a[i] = b[i]
        shorter == IF Len(a) < Len(b) THEN Len(a) ELSE Len(b)
    IN  CHOOSE n \in 0..shorter :
            agree(n) /\ \A k \in (n + 1)..shorter : ~agree(k)

\* path.relative(from, to): ".." for each segment of from below the common
\* directory, then the segments of to below it; "" when they are the same.
PathRelative(from, to) ==
    LET f == PathResolve(from)
        t == PathResolve(to)
        n == CommonPrefixLen(f, t)
    IN  Join([i \in 1..(Len(f) - n) |-> wDotDot] \o SubSeq(t, n + 1, Len(t)),
             wSlash)

\* diff.js 96-108: args.commits as the parser fills it: every positional
\* word after "diff", the words after the first "--" included; "paths" is left
\* with nothing.
dfCommits(argv) ==
    LET rest == Slice(argv, IndexOf(argv, wDiff) + 1, Len(argv))
        sep == IndexOf(rest, wSeparator)
        before == IF sep = -1 THEN rest ELSE Slice(rest, 0, sep)
        after == IF sep = -1 THEN <<>> ELSE Slice(rest, sep + 1, Len(rest))
    IN  SelectSeq(before, LAMBDA w : ~StartsWith(w, <<"-">>)) \o after

\* diff_util.js 170-206
getOptions(argv, commits) ==
    LET i0raw == IndexOf(argv, wDiff)
        i0 == IF i0raw = -1 THEN 0 ELSE i0raw
        i1raw == IndexOf(argv, wSeparator)
        i1 == IF i1raw = -1 THEN Len(argv) ELSE i1raw
        argOpts == Slice(argv, i0 + 1, i1)
        argPaths == Slice(argv, i1 + 1, Len(argv))
        treeish1 == IF Len(commits) > 0 /\ ~Includes(argPaths, commits[1])
                    THEN commits[1] ELSE NoWord
        treeish2 == IF /\ treeish1 # NoWord
                       /\ Len(commits) > 1
                       /\ ~Includes(argPaths, commits[2])
                    THEN commits[2] ELSE NoWord
    IN  [treeish1 |-> treeish1,
         treeish2 |-> treeish2,
         t1 |-> revparseTreeish(treeish1),
         t2 |-> revparseTreeish(treeish2),
         argOpts |-> SelectSeq(argOpts,
                               LAMBDA w : w # treeish1 /\ w # treeish2),
         argPaths |-> argPaths]

\* diff_util.js 234-246: the primitive called, with its trees.
getDiffWithOptions(opts) ==
    IF opts.t1 # NULL /\ opts.t2 # NULL
    THEN <<"treeToTree", opts.t1, opts.t2>>
    ELSE IF opts.t1 # NULL
    THEN <<"treeToWorkdirWithIndex", opts.t1>>
    ELSE <<"indexToWorkdir">>

\* diff_util.js 217-225: the submodule-relative paths of the filters that are
\* kept, in order.
RECURSIVE dfRelativePaths(_, _)
dfRelativePaths(subPath, argPaths) ==
    IF Len(argPaths) = 0 THEN <<>>
    ELSE LET relative == PathRelative(subPath, argPaths[1])
             rest == dfRelativePaths(subPath, Tail(argPaths))
         IN  IF StartsWith(relative, wDotDot) THEN rest
             ELSE IF relative = EmptyStr THEN <<wDot>> \o rest
             ELSE <<relative>> \o rest

\* diff_util.js 208-232: the command line of the submodule's diff, or "".
subDiffCmdBuilder(metaDir, subDir, opts) ==
    LET subPath == PathRelative(metaDir, subDir)
        argOpts == opts.argOpts
        argPaths == opts.argPaths
        treeishStr == EmptyStr
        head == wGitC \o subPath \o wSpace \o wDiff \o wSpace
                \o Join(argOpts, wSpace) \o wSpace \o treeishStr
    IN  IF Len(argPaths) > 0
        THEN LET relativePaths == dfRelativePaths(subPath, argPaths) IN
             IF Len(relativePaths) = 0 THEN EmptyStr
             ELSE head \o wSpace \o wSeparator \o wSpace
                  \o Join(relativePaths, wSpace)
        ELSE head

\* subRepo.workdir() of the submodule of this name.
dfSubDir(name) == DfMetaDir \o wSlash \o name \o wSlash

\* The command lines a user may give.
DfArgvs ==
    UNION {{<<wNode, wGitMeta, wDiff>> \o ws : ws \in [1..n -> DfWords]} :
              n \in 0..MaxArgs}

\* The changed submodules getSubmoduleChangesFromDiff may report, in the order
\* the mapping holds them.
DfTreeChangesSets ==
    {<<>>} \cup {<<a>> : a \in DfSubs}
           \cup {s \in {<<a, b>> : a \in DfSubs, b \in DfSubs} :
                    s[1] # s[2]}

\* The diff command is about to run; the other parts are not running.
DfInit ==
    /\ dfPc = "start"
    /\ dfArgv \in DfArgvs
    /\ dfOpts = <<>>
    /\ dfMetaDiff = <<>>
    /\ dfTreeChanges = <<>>
    /\ dfIdx = 0
    /\ dfLog = <<>>
    /\ dfError = NoError
    /\ mbPc = "off"
    /\ mbArgs = <<>>
    /\ mbRepo = <<>>
    /\ mbOurs = NULL
    /\ mbTheirs = NULL
    /\ mbResult = <<>>
    /\ mbStdout = <<>>
    /\ mbError = NoError
    /\ mbCalls = <<>>
    /\ stPc = "off"
    /\ stArgs = <<>>
    /\ stDiffs = <<>>
    /\ stCalls = <<>>
    /\ stResult = <<>>

\* diff.js 131-135: the options, the meta diff and the changed submodules.
DfStart ==
    /\ dfPc = "start"
    /\ LET opts == getOptions(dfArgv, dfCommits(dfArgv)) IN
       /\ dfOpts' = opts
       /\ dfMetaDiff' = getDiffWithOptions(opts)
    /\ dfTreeChanges' \in DfTreeChangesSets
    /\ dfPc' = "loop"
    /\ UNCHANGED <<dfArgv, dfIdx, dfLog, dfError>>
    /\ UNCHANGED dfOthers

\* A variant of DfOpenSub that walks the mapping from its last name.
DfOpenSub_FromLast ==
    /\ dfPc = "loop"
    /\ dfIdx < Len(dfTreeChanges)
    /\ dfLog' = Append(dfLog,
                       <<"getSubrepo",
                         dfTreeChanges[Len(dfTreeChanges) - dfIdx],
                         "FORCE_OPEN">>)
    /\ dfPc' = "print"
    /\ UNCHANGED <<dfArgv, dfOpts, dfMetaDiff, dfTreeChanges, dfIdx, dfError>>
    /\ UNCHANGED dfOthers

\* diff.js 136-140: the next submodule is opened.
DfOpenSub ==
    /\ dfPc = "loop"
    /\ dfIdx < Len(dfTreeChanges)
    /\ dfLog' = Append(dfLog,
                       <<"getSubrepo", dfTreeChanges[dfIdx + 1], "FORCE_OPEN">>)
    /\ dfPc' = "print"
    /\ UNCHANGED <<dfArgv, dfOpts, dfMetaDiff, dfTreeChanges, dfIdx, dfError>>
    /\ UNCHANGED dfOthers

\* diff.js 137-140: getSubrepo throws; nothing catches it.
DfOpenSubFails ==
    /\ dfPc = "loop"
    /\ dfIdx < Len(dfTreeChanges)
    /\ dfLog' = Append(dfLog,
                       <<"getSubrepo", dfTreeChanges[dfIdx + 1], "FORCE_OPEN">>)
    /\ dfError' = <<"getSubrepo failed", dfTreeChanges[dfIdx + 1]>>
    /\ dfPc' = "failed"
    /\ UNCHANGED <<dfArgv, dfOpts, dfMetaDiff, dfTreeChanges, dfIdx>>
    /\ UNCHANGED dfOthers

\* diff_util.js 251-256: what printDiff prints and spawns for a submodule.
dfPrintDiffLog(name, opts) ==
    LET execStr == subDiffCmdBuilder(DfMetaDir, dfSubDir(name), opts) IN
    << <<"console.log", name, execStr>>, <<"spawn", name, execStr>> >>

\* diff.js 141 and diff_util.js 248-257: printDiff; the process ends well.
DfPrintDiff ==
    /\ dfPc = "print"
    /\ dfLog' = dfLog \o dfPrintDiffLog(dfTreeChanges[dfIdx + 1], dfOpts)
    /\ dfIdx' = dfIdx + 1
    /\ dfPc' = "loop"
    /\ UNCHANGED <<dfArgv, dfOpts, dfMetaDiff, dfTreeChanges, dfError>>
    /\ UNCHANGED dfOthers

\* diff.js 141 and diff_util.js 248-257: printDiff; spawn rejects (the process
\* fails, or cannot be started); nothing catches it.
DfPrintDiffFails ==
    /\ dfPc = "print"
    /\ dfLog' = dfLog \o dfPrintDiffLog(dfTreeChanges[dfIdx + 1], dfOpts)
    /\ dfError' = <<"spawn failed", dfTreeChanges[dfIdx + 1]>>
    /\ dfPc' = "failed"
    /\ UNCHANGED <<dfArgv, dfOpts, dfMetaDiff, dfTreeChanges, dfIdx>>
    /\ UNCHANGED dfOthers

\* diff.js 143-148: after the loop the debug record is printed.
DfFinish ==
    /\ dfPc = "loop"
    /\ dfIdx = Len(dfTreeChanges)
    /\ dfLog' = Append(dfLog, <<"console.log", NoWord, <<"debug">>>>)
    /\ dfPc' = "done"
    /\ UNCHANGED <<dfArgv, dfOpts, dfMetaDiff, dfTreeChanges, dfIdx, dfError>>
    /\ UNCHANGED dfOthers

DfNext ==
    \/ DfStart
    \/ DfOpenSub
    \/ DfOpenSubFails
    \/ DfPrintDiff
    \/ DfPrintDiffFails
    \/ DfFinish

(***************************************************************************)
(* The claims about the diff command.                                      *)
(***************************************************************************)

\* getOptions has returned.
DfOptsReady == dfPc \in {"loop", "print", "done", "failed"}

\* The trees among the two targets of the options, in order.
DfResolvedTargets ==
    SelectSeq(<<dfOpts.t1, dfOpts.t2>>, LAMBDA t : t # NULL)

\* C5: getDiff chooses the primitive by the number of targets that resolved,
\* whichever of the two they are: none, the index against the working
\* directory; one, that tree against the working directory with index; two,
\* the two trees against each other.
C5_PrimitiveByResolvedCount ==
    DfOptsReady =>
        LET trees == DfResolvedTargets IN
        CASE Len(trees) = 0 -> dfMetaDiff = <<"indexToWorkdir">>
          [] Len(trees) = 1 ->
                dfMetaDiff = <<"treeToWorkdirWithIndex", trees[1]>>
          [] Len(trees) = 2 ->
                dfMetaDiff = <<"treeToTree", trees[1], trees[2]>>

\* The arguments supplied after "diff", flags aside, in order ("--" kept).
DfSupplied ==
    LET rest == Slice(dfArgv, IndexOf(dfArgv, wDiff) + 1, Len(dfArgv)) IN
    SelectSeq(rest, LAMBDA w : w = wSeparator \/ ~StartsWith(w, <<"-">>))

\* How many leading arguments, at most two, resolve to a tree.
DfLeadingTrees ==
    LET a == DfSupplied
        ok(i) == i <= Len(a) /\ revparseTreeish(a[i]) # NULL
    IN  IF ok(1) THEN (IF ok(2) THEN 2 ELSE 1) ELSE 0

\* C6: the tree targets are the leading arguments, at most two, that resolve;
\* the first argument that does not resolve, or a "--", starts the path
\* filters: every argument from there on ("--" itself aside) is a path filter
\* and none of them is a tree target.
C6_LeadingTreesThenPaths ==
    DfOptsReady =>
        LET a == DfSupplied
            n == DfLeadingTrees
            rest == SubSeq(a, n + 1, Len(a))
            filters == IF Len(rest) > 0 /\ rest[1] = wSeparator
                       THEN Tail(rest) ELSE rest
        IN  /\ DfResolvedTargets = [i \in 1..n |-> revparseTreeish(a[i])]
            /\ dfOpts.argPaths = filters

\* A path filter lies in the directory of the submodule of this name.
DfInside(name, p) ==
    LET dir == PathResolve(name)
        t == PathResolve(p)
    IN  Len(t) >= Len(dir) /\ SubSeq(t, 1, Len(dir)) = dir

\* The filters inside a submodule, each as its path from the submodule's
\* directory, the directory itself as ".", in order.
RECURSIVE DfFiltersInside(_, _)
DfFiltersInside(name, filters) ==
    IF Len(filters) = 0 THEN <<>>
    ELSE LET dir == PathResolve(name)
             t == PathResolve(filters[1])
             rest == DfFiltersInside(name, Tail(filters))
         IN  IF ~DfInside(name, filters[1]) THEN rest
             ELSE IF Len(t) = Len(dir) THEN <<wDot>> \o rest
             ELSE <<Join(SubSeq(t, Len(dir) + 1, Len(t)), wSlash)>> \o rest

\* The entries of the log that printDiff made for a submodule.
DfPrintDiffEntries ==
    {i \in DOMAIN dfLog :
        dfLog[i][1] \in {"console.log", "spawn"} /\ dfLog[i][2] # NoWord}

\* C7: when path filters are given and all of them lie outside a submodule,
\* printDiff spawns no process and prints nothing for that submodule.
C7_SkippedWhenAllOutside ==
    \A i \in DfPrintDiffEntries :
        ~(/\ Len(dfOpts.argPaths) > 0
          /\ \A k \in DOMAIN dfOpts.argPaths :
                ~DfInside(dfLog[i][2], dfOpts.argPaths[k]))

\* The words of a command line, and the filters it passes: the words after
\* its "--".
DfCmdWords(execStr) ==
    SelectSeq(SplitFrom(execStr, " ", 1, EmptyStr), LAMBDA w : w # EmptyStr)

DfCmdFilters(execStr) ==
    LET ws == DfCmdWords(execStr)
        sep == IndexOf(ws, wSeparator)
    IN  IF sep = -1 THEN <<>> ELSE Slice(ws, sep + 1, Len(ws))

\* The words of a command line between "git -C <dir> diff" and its "--".
DfCmdOptions(execStr) ==
    LET ws == DfCmdWords(execStr)
        sep == IndexOf(ws, wSeparator)
    IN  Slice(ws, 4, IF sep = -1 THEN Len(ws) ELSE sep)

\* C8: the filters passed to a submodule's diff are exactly the filters that
\* lie inside the submodule's directory, whatever the name of the entry,
\* each as its submodule-relative path, the directory itself as ".", in the
\* original order; the filters outside are dropped.
C8_FiltersTranslated ==
    \A i \in DOMAIN dfLog :
        dfLog[i][1] = "spawn" =>
            DfCmdFilters(dfLog[i][3]) =
                DfFiltersInside(dfLog[i][2], dfOpts.argPaths)

\* C9: when the meta-level diff was given a tree target that resolved, the
\* diff run in a submodule is given a tree target too.
C9_SubmoduleGetsTreeTargets ==
    \A i \in DOMAIN dfLog :
        (/\ dfLog[i][1] = "spawn"
         /\ dfLog[i][3] # EmptyStr
         /\ Len(DfResolvedTargets) > 0)
        => \E k \in DOMAIN DfCmdOptions(dfLog[i][3]) :
              revparseTreeish(DfCmdOptions(dfLog[i][3])[k]) # NULL

\* The submodule has been opened, and its diff spawned.
DfOpened(name) ==
    \E i \in DOMAIN dfLog : dfLog[i][1] = "getSubrepo" /\ dfLog[i][2] = name

DfDiffed(name) ==
    \E i \in DOMAIN dfLog : dfLog[i][1] = "spawn" /\ dfLog[i][2] = name

\* C10: when opening or diffing one submodule has failed, every other
\* submodule of the mapping is nevertheless opened and diffed by the time
\* the command ends.
C10_OthersStillDiffed ==
    dfPc = "failed" =>
        \A k \in DOMAIN dfTreeChanges :
            k # dfIdx + 1 =>
                DfOpened(dfTreeChanges[k]) /\ DfDiffed(dfTreeChanges[k])

\* What happened to submodules, in order: each opening with its option, and
\* each diff that was spawned and has ended.
DfVisits ==
    LET kept == SelectSeq(dfLog,
                          LAMBDA e : e[1] \in {"getSubrepo", "spawn"})
    IN  [i \in DOMAIN kept |->
            IF kept[i][1] = "getSubrepo"
            THEN <<"open", kept[i][2], kept[i][3]>>
            ELSE <<"diffed", kept[i][2]>>]

\* The visits of the first n names of the mapping, one submodule at a time:
\* opened with FORCE_OPEN, then diffed, then the next one.
DfVisitsInOrder(n) ==
    [i \in 1..(2 * n) |->
        IF i % 2 = 1
        THEN <<"open", dfTreeChanges[(i + 1) \div 2], "FORCE_OPEN">>
        ELSE <<"diffed", dfTreeChanges[i \div 2]>>]

\* C11: while no step of a run of the diff command has failed, the
\* submodules visited are the first names the mapping yields, in its order,
\* one at a time: each is opened with FORCE_OPEN, then its diff is printed and
\* has ended before the next is opened, and no other submodule is opened or
\* diffed; when the run ends, every name of the mapping has been visited
\* exactly once.
C11_VisitedInMappingOrder ==
    /\ dfPc = "loop" => DfVisits = DfVisitsInOrder(dfIdx)
    /\ dfPc = "print" =>
          DfVisits = Append(DfVisitsInOrder(dfIdx),
                            <<"open", dfTreeChanges[dfIdx + 1], "FORCE_OPEN">>)
    /\ dfPc = "done" => DfVisits = DfVisitsInOrder(Len(dfTreeChanges))

\* C11 witness: a run ended without a failure over the mapping y, x: y was
\* opened and diffed, then x.
C11_Witness ==
    /\ dfPc = "done"
    /\ dfError = NoError
    /\ dfTreeChanges = << <<"y">>, <<"x">> >>
    /\ DfVisits = << <<"open", <<"y">>, "FORCE_OPEN">>, <<"diffed", <<"y">>>>,
                     <<"open", <<"x">>, "FORCE_OPEN">>, <<"diffed", <<"x">>>> >>

(***************************************************************************)
(* The specifications, one per part.                                       *)
(***************************************************************************)

\* One run of the merge-bare command.
SpecMergeBare == MbInit /\ [][MbNext]_vars

\* One call of getRepoStatus.
SpecStatus == StInit /\ [][StNext]_vars

\* One run of the diff command.
SpecDiff == DfInit /\ [][DfNext]_vars

====
